---------------------------- MODULE Spec2Model ----------------------------
(***************************************************************************)
(* Model of src/main.py: the RFID food-waste carbon-footprint pipeline.    *)
(*                                                                         *)
(*   load_and_preprocess -> add_carbon_footprint -> aggregate_by_city /    *)
(*   aggregate_by_gu / aggregate_by_year_month -> simulate_reduction,      *)
(*   driven by main().                                                     *)
(*                                                                         *)
(* Column names are transliterated:                                        *)
(*   "year" = 배출연도, "month" = 배출월, "province" = 광역시도,              *)
(*   "municipality" = 기초지자체, "tonnage" = 배출량(톤),                     *)
(*   "emission" = 탄소배출량(kgCO2e), "total_tons" = 총배출량_톤,             *)
(*   "total_kgCO2e" = 총탄소배출량_kgCO2e, "label" = 연-월.                   *)
(*                                                                         *)
(* A float is a decimal fixed-point number with two fractional digits      *)
(* (the integer n stands for n / Scale); an int64 is a plain integer.      *)
(* Non-finite tonnage values are outside the modelled inputs.              *)
(***************************************************************************)
EXTENDS Integers, Sequences, FiniteSets, TLC

\* ------------------------------------------------------------------------
\* Bounds and constants
\* ------------------------------------------------------------------------

\* largest number of data rows in an uploaded table
MaxRows == 2

\* fixed-point scale of the float model
Scale == 100

\* DEFAULT_EMISSION_FACTOR_PER_TON = 500.0
DEFAULT_EMISSION_FACTOR_PER_TON == 500 * Scale

\* default of the reduction-percent input (value=10.0)
DEFAULT_REDUCTION_PERCENT == 10 * Scale

\* ------------------------------------------------------------------------
\* Cells: the values a pandas column can hold
\* ------------------------------------------------------------------------

\* NaN / missing value
Null == [k |-> "null", v |-> 0, s |-> ""]
\* float64 NaN-free finite value n / Scale
Num(n) == [k |-> "num", v |-> n, s |-> ""]
\* float64 +inf
Inf == [k |-> "inf", v |-> 0, s |-> ""]
\* a string (object dtype)
Str(x) == [k |-> "str", v |-> 0, s |-> x]
\* int64 value n
Int64(n) == [k |-> "int", v |-> n, s |-> ""]

\* parsing of a string cell: "7" is the numeric string of the inputs
ParseStr(x) == IF x = "7" THEN Num(7 * Scale) ELSE Null

isna(c) == c.k = "null"

\* pd.to_numeric(column, errors="coerce"), cell by cell
to_numeric(c) ==
    CASE c.k = "str" -> ParseStr(c.s)
      [] OTHER       -> c

\* truncation toward zero of a fixed-point float to an integer
Trunc(n) == IF n >= 0 THEN n \div Scale ELSE -((-n) \div Scale)

\* mutant of astype_int: the cast is left out
astype_none(c) == c

\* column.astype(int), cell by cell (finite values only)
astype_int(c) == Int64(Trunc(c.v))

\* ------------------------------------------------------------------------
\* Datasets
\* ------------------------------------------------------------------------

required_cols == <<"year", "month", "province", "municipality", "tonnage">>

RequiredSet == {required_cols[i] : i \in 1..Len(required_cols)}

NumericCols == {"year", "month", "tonnage"}

IntCols == {"year", "month"}

DataFrame(cols, rows) == [cols |-> cols, rows |-> rows]

EmptyFrame == DataFrame({}, <<>>)

\* mutant of dropna: how="all" (a row goes only when all of subset is missing)
dropna_all(d, subset) ==
    DataFrame(d.cols,
              SelectSeq(d.rows, LAMBDA r : \E c \in subset : ~isna(r[c])))

\* df.dropna(subset=subset)
dropna(d, subset) ==
    DataFrame(d.cols,
              SelectSeq(d.rows, LAMBDA r : \A c \in subset : ~isna(r[c])))

\* df[col] = pd.to_numeric(df[col], errors="coerce") for the numeric columns
ToNumericCols(d) ==
    DataFrame(d.cols,
              [i \in 1..Len(d.rows) |->
                  [c \in d.cols |-> IF c \in NumericCols THEN to_numeric(d.rows[i][c])
                                    ELSE d.rows[i][c]]])

\* df[col] = df[col].astype(int) for year and month
AsTypeIntCols(d) ==
    DataFrame(d.cols,
              [i \in 1..Len(d.rows) |->
                  [c \in d.cols |-> IF c \in IntCols THEN astype_int(d.rows[i][c])
                                    ELSE d.rows[i][c]]])

\* ------------------------------------------------------------------------
\* Uploaded files
\* ------------------------------------------------------------------------

\* one CSV data line
RawRow(y, m, p, g, t) ==
    [c \in RequiredSet |->
        CASE c = "year"         -> y
          [] c = "month"        -> m
          [] c = "province"     -> p
          [] c = "municipality" -> g
          [] c = "tonnage"      -> t]

\* the data lines an uploaded table is made of
RawRows ==
    { RawRow(Num(2018 * Scale), Num(3 * Scale), Str("Seoul"), Str("Gangnam"), Num(10 * Scale)),
      RawRow(Num(2018 * Scale), Num(9 * Scale), Str("Seoul"), Str("Songpa"), Num(5 * Scale)),
      RawRow(Num(2019 * Scale), Num(1 * Scale), Str("Busan"), Str("Haeundae"), Num(20 * Scale)),
      RawRow(Num(2019 * Scale), Str("7"), Str("Busan"), Str("Haeundae"), Num(250)),
      RawRow(Num(2018 * Scale), Str("abc"), Str("Seoul"), Str("Gangnam"), Num(10 * Scale)),
      RawRow(Num(2018 * Scale), Num(3 * Scale), Str("Seoul"), Str("Gangnam"), Null),
      RawRow(Num(2018 * Scale), Num(3 * Scale), Null, Str("Gangnam"), Num(10 * Scale)),
      RawRow(Num(2019 * Scale), Num(13 * Scale), Str("Busan"), Str("Haeundae"), Num(-5 * Scale)),
      RawRow(Num(201850), Num(650), Str("Seoul"), Str("Gangnam"), Num(10 * Scale)),
      RawRow(Inf, Num(3 * Scale), Str("Seoul"), Str("Gangnam"), Num(10 * Scale)) }

Tables(n) == UNION { [1..k -> RawRows] : k \in 0..n }

\* the header sets of the uploaded tables: complete, or with columns absent
ColSets ==
    {RequiredSet} \cup { RequiredSet \ {c} : c \in RequiredSet }
                  \cup { RequiredSet \ {"year", "tonnage"} }

Project(rows, cols) == [i \in 1..Len(rows) |-> [c \in cols |-> rows[i][c]]]

Encodings == {"cp949", "utf-8"}

File(enc, cols, rows) == [enc |-> enc, table |-> DataFrame(cols, Project(rows, cols))]

NoFile == File("none", {}, <<>>)

\* the files a user can upload: the two supported encodings and an
\* undecodable one
Files ==
    { File("cp949", RequiredSet, t) : t \in Tables(MaxRows) }
    \cup { File(e, cs, t) : e \in Encodings, cs \in ColSets, t \in Tables(1) }
    \cup { File("binary", {}, <<>>) }

\* ------------------------------------------------------------------------
\* load_and_preprocess
\* ------------------------------------------------------------------------

Raise(exc, arg) == [raised |-> exc, arg |-> arg, df |-> EmptyFrame]

Return(d) == [raised |-> "", arg |-> "", df |-> d]

\* pd.read_csv(uploaded_file, encoding=enc) with the file positioned at pos
read_csv(f, pos, enc) ==
    IF f.enc # enc THEN Raise("UnicodeDecodeError", enc)
    ELSE IF pos # 0 THEN Raise("EmptyDataError", "")
    ELSE Return(f.table)

\* uploaded_file.seek(0)
seek(pos) == 0

\* try cp949, then utf-8 after rewinding
ReadWithFallback(f) ==
    LET first == read_csv(f, 0, "cp949")
    IN  IF first.raised = "UnicodeDecodeError"
        THEN read_csv(f, seek(1), "utf-8")
        ELSE first

\* mutant of FirstMissing: the error names the first required column
FirstMissingWrong(cols) ==
    IF \A i \in 1..Len(required_cols) : required_cols[i] \in cols THEN ""
    ELSE required_cols[1]

\* the first required column that is absent, "" if none
FirstMissing(cols) ==
    LET missing == { i \in 1..Len(required_cols) : required_cols[i] \notin cols }
    IN  IF missing = {} THEN ""
        ELSE required_cols[CHOOSE i \in missing : \A j \in missing : i <= j]

\* to_numeric on the three numeric columns, then dropna on them
Coerce(d) == dropna(ToNumericCols(d), NumericCols)

\* astype(int) raises on a non-finite value
CastInts(d) ==
    IF \E i \in 1..Len(d.rows) : \E c \in IntCols : d.rows[i][c].k = "inf"
    THEN Raise("IntCastingNaNError", "")
    ELSE Return(AsTypeIntCols(d))

load_and_preprocess(f) ==
    LET r == ReadWithFallback(f)
    IN  IF r.raised # "" THEN r
        ELSE IF FirstMissing(r.df.cols) # ""
             THEN Raise("ValueError", FirstMissing(r.df.cols))
             ELSE CastInts(Coerce(dropna(r.df, RequiredSet)))

\* ------------------------------------------------------------------------
\* add_carbon_footprint
\* ------------------------------------------------------------------------

\* float multiplication
FMul(a, b) == (a * b) \div Scale

\* df["emission"] = df["tonnage"] * emission_factor_per_ton
WithEmission(d, emission_factor_per_ton) ==
    DataFrame(d.cols \cup {"emission"},
              [i \in 1..Len(d.rows) |->
                  [c \in d.cols \cup {"emission"} |->
                      IF c = "emission"
                      THEN Num(FMul(d.rows[i]["tonnage"].v, emission_factor_per_ton))
                      ELSE d.rows[i][c]]])

\* mutant of add_carbon_footprint: no df.copy(), the caller's dataset is written
add_carbon_footprint_inplace(d, emission_factor_per_ton) ==
    LET out == WithEmission(d, emission_factor_per_ton)
    IN  [arg |-> out, ret |-> out]

\* arg: the caller's dataset after the call; ret: the returned dataset
add_carbon_footprint(d, emission_factor_per_ton) ==
    [arg |-> d, ret |-> WithEmission(d, emission_factor_per_ton)]

\* ------------------------------------------------------------------------
\* Aggregation: groupby(keys).agg(sum, sum).reset_index()
\* ------------------------------------------------------------------------

\* lexicographic rank of the strings of the inputs
StrRank(x) ==
    CASE x = "Busan"    -> 1
      [] x = "Gangnam"  -> 2
      [] x = "Haeundae" -> 3
      [] x = "Seoul"    -> 4
      [] x = "Songpa"   -> 5
      [] OTHER          -> 0

CellRank(c) == IF c.k = "str" THEN StrRank(c.s) ELSE c.v

KeyOf(row, keys) == [i \in 1..Len(keys) |-> row[keys[i]]]

\* tuple comparison of two group keys
KeyLess(a, b) ==
    \E i \in 1..Len(a) :
        /\ CellRank(a[i]) < CellRank(b[i])
        /\ \A j \in 1..(i - 1) : a[j] = b[j]

\* the distinct keys in ascending order (groupby sorts its keys)
RECURSIVE SortKeys(_)
SortKeys(S) ==
    IF S = {} THEN <<>>
    ELSE LET m == CHOOSE x \in S : \A y \in S \ {x} : KeyLess(x, y)
         IN  <<m>> \o SortKeys(S \ {m})

\* mutant of GroupKeys: only the first row's key
GroupKeysFirst(d, keys) ==
    IF d.rows = <<>> THEN {} ELSE { KeyOf(d.rows[1], keys) }

\* the distinct key combinations of d; rows with a missing key are left out
GroupKeys(d, keys) ==
    { KeyOf(d.rows[i], keys) : i \in
        { j \in 1..Len(d.rows) : \A n \in 1..Len(keys) : ~isna(d.rows[j][keys[n]]) } }

\* mutant of GroupRows: the first row of the group only ("first" for "sum")
GroupRowsFirst(d, keys, key) ==
    LET g == SelectSeq(d.rows, LAMBDA r : KeyOf(r, keys) = key)
    IN  IF g = <<>> THEN g ELSE <<g[1]>>

\* the rows of one group, in dataset order
GroupRows(d, keys, key) == SelectSeq(d.rows, LAMBDA r : KeyOf(r, keys) = key)

\* "sum" over one column of a sequence of rows
RECURSIVE ColSum(_, _)
ColSum(rows, col) ==
    IF rows = <<>> THEN 0
    ELSE rows[1][col].v + ColSum(Tail(rows), col)

\* mutant of SummaryRow: both sums read the tonnage column
SummaryRowTons(d, keys, key) ==
    [c \in {keys[i] : i \in 1..Len(keys)} \cup {"total_tons", "total_kgCO2e"} |->
        CASE c \in {"total_tons", "total_kgCO2e"}
                   -> Num(ColSum(SelectSeq(d.rows, LAMBDA r : KeyOf(r, keys) = key), "tonnage"))
          [] OTHER -> key[CHOOSE i \in 1..Len(keys) : keys[i] = c]]

\* one output row of agg(...).reset_index()
SummaryRow(d, keys, key) ==
    [c \in {keys[i] : i \in 1..Len(keys)} \cup {"total_tons", "total_kgCO2e"} |->
        CASE c = "total_tons"   -> Num(ColSum(GroupRows(d, keys, key), "tonnage"))
          [] c = "total_kgCO2e" -> Num(ColSum(GroupRows(d, keys, key), "emission"))
          [] OTHER -> key[CHOOSE i \in 1..Len(keys) : keys[i] = c]]

GroupBySum(d, keys) ==
    LET sorted == SortKeys(GroupKeys(d, keys))
    IN  DataFrame({keys[i] : i \in 1..Len(keys)} \cup {"total_tons", "total_kgCO2e"},
                  [n \in 1..Len(sorted) |-> SummaryRow(d, keys, sorted[n])])

aggregate_by_city(d) == GroupBySum(d, <<"province">>)

aggregate_by_gu(d) == GroupBySum(d, <<"province", "municipality">>)

\* mutant of aggregate_by_year_month: the first half of the earliest year and
\* the second half of the latest year are left out
aggregate_by_year_month_trimmed(d) ==
    LET years == { d.rows[i]["year"].v : i \in 1..Len(d.rows) }
        inner(r) == /\ ~(r["month"].v <= 6 /\ \A y \in years : r["year"].v <= y)
                    /\ ~(r["month"].v > 6 /\ \A y \in years : r["year"].v >= y)
    IN  GroupBySum(DataFrame(d.cols, SelectSeq(d.rows, inner)), <<"year", "month">>)

aggregate_by_year_month(d) == GroupBySum(d, <<"year", "month">>)

\* ym_plot: the year-month table with its "year-month" label column
YmPlot(ym) ==
    DataFrame(ym.cols \cup {"label"},
              [i \in 1..Len(ym.rows) |->
                  [c \in ym.cols \cup {"label"} |->
                      IF c = "label"
                      THEN Str(ToString(ym.rows[i]["year"].v) \o "-"
                                   \o ToString(ym.rows[i]["month"].v))
                      ELSE ym.rows[i][c]]])

\* ------------------------------------------------------------------------
\* simulate_reduction
\* ------------------------------------------------------------------------

\* reduction_percent / 100.0
RateOf(percent) == (percent * Scale) \div (100 * Scale)

\* mutant of simulate_reduction: the total is multiplied by the rate itself
simulate_reduction_rate(d, reduction_rate) ==
    LET original_total == ColSum(d.rows, "emission")
        reduced_total  == FMul(original_total, reduction_rate)
        diff           == original_total - reduced_total
    IN  [original_total |-> original_total,
         reduced_total  |-> reduced_total,
         diff           |-> diff,
         rate           |-> reduction_rate]

simulate_reduction(d, reduction_rate) ==
    LET original_total == ColSum(d.rows, "emission")
        reduced_total  == FMul(original_total, Scale - reduction_rate)
        diff           == original_total - reduced_total
    IN  [original_total |-> original_total,
         reduced_total  |-> reduced_total,
         diff           |-> diff,
         rate           |-> reduction_rate]

NoResult == [original_total |-> 0, reduced_total |-> 0, diff |-> 0, rate |-> 0]

\* ------------------------------------------------------------------------
\* main: one run of the request handler
\* ------------------------------------------------------------------------

VARIABLES pc, uploaded_file, emission_factor, reduction_percent,
          loaded, df, city_stats, gu_stats, ym_stats, ym_plot, result, message

vars == <<pc, uploaded_file, emission_factor, reduction_percent,
          loaded, df, city_stats, gu_stats, ym_stats, ym_plot, result, message>>

\* sidebar input: min_value=0.0
Factors == {0, 100 * Scale, DEFAULT_EMISSION_FACTOR_PER_TON}

\* sidebar input: min_value=0.0, max_value=100.0
Percents == {0, DEFAULT_REDUCTION_PERCENT, 100 * Scale}

NoMessage == [kind |-> "", exc |-> "", arg |-> ""]

Init ==
    /\ pc = "start"
    /\ uploaded_file = NoFile
    /\ emission_factor = DEFAULT_EMISSION_FACTOR_PER_TON
    /\ reduction_percent = DEFAULT_REDUCTION_PERCENT
    /\ loaded = EmptyFrame
    /\ df = EmptyFrame
    /\ city_stats = EmptyFrame
    /\ gu_stats = EmptyFrame
    /\ ym_stats = EmptyFrame
    /\ ym_plot = EmptyFrame
    /\ result = NoResult
    /\ message = NoMessage

\* no file uploaded: st.info and return
NoUpload ==
    /\ pc = "start"
    /\ pc' = "waiting"
    /\ message' = [kind |-> "info", exc |-> "", arg |-> ""]
    /\ UNCHANGED <<uploaded_file, emission_factor, reduction_percent, loaded, df,
                   city_stats, gu_stats, ym_stats, ym_plot, result>>

\* a file is uploaded and the sidebar inputs are read
Upload ==
    /\ pc = "start"
    /\ \E f \in Files, ef \in Factors, rp \in Percents :
          /\ uploaded_file' = f
          /\ emission_factor' = ef
          /\ reduction_percent' = rp
    /\ pc' = "load"
    /\ UNCHANGED <<loaded, df, city_stats, gu_stats, ym_stats, ym_plot, result, message>>

\* mutant of Caught: except ValueError
CaughtValueError(exc) == exc \in {"ValueError"}

\* the exceptions "except Exception" catches: every exception read_csv,
\* the column check and astype raise derives from Exception
Caught(exc) ==
    exc \in {"UnicodeDecodeError", "EmptyDataError", "ValueError", "IntCastingNaNError"}

\* try: df = load_and_preprocess(uploaded_file) -- succeeded
LoadOk ==
    /\ pc = "load"
    /\ LET r == load_and_preprocess(uploaded_file)
       IN  /\ r.raised = ""
           /\ loaded' = r.df
           /\ df' = r.df
    /\ pc' = "check"
    /\ UNCHANGED <<uploaded_file, emission_factor, reduction_percent,
                   city_stats, gu_stats, ym_stats, ym_plot, result, message>>

\* except Exception as e: st.error and return; an exception the clause
\* does not catch leaves main as an unhandled fault
LoadFail ==
    /\ pc = "load"
    /\ LET r == load_and_preprocess(uploaded_file)
       IN  /\ r.raised # ""
           /\ message' = IF Caught(r.raised)
                         THEN [kind |-> "error", exc |-> r.raised, arg |-> r.arg]
                         ELSE message
           /\ pc' = IF Caught(r.raised) THEN "error" ELSE "fault"
    /\ UNCHANGED <<uploaded_file, emission_factor, reduction_percent, loaded, df,
                   city_stats, gu_stats, ym_stats, ym_plot, result>>

\* if df.empty: st.error and return
Empty ==
    /\ pc = "check"
    /\ df.rows = <<>>
    /\ pc' = "empty"
    /\ message' = [kind |-> "empty", exc |-> "", arg |-> ""]
    /\ UNCHANGED <<uploaded_file, emission_factor, reduction_percent, loaded, df,
                   city_stats, gu_stats, ym_stats, ym_plot, result>>

\* st.success with the row count and the year range
NonEmpty ==
    /\ pc = "check"
    /\ df.rows # <<>>
    /\ pc' = "enrich"
    /\ message' = [kind |-> "success", exc |-> "", arg |-> ToString(Len(df.rows))]
    /\ UNCHANGED <<uploaded_file, emission_factor, reduction_percent, loaded, df,
                   city_stats, gu_stats, ym_stats, ym_plot, result>>

\* df = add_carbon_footprint(df, emission_factor)
Enrich ==
    /\ pc = "enrich"
    /\ LET r == add_carbon_footprint(df, emission_factor)
       IN  /\ loaded' = r.arg
           /\ df' = r.ret
    /\ pc' = "aggregate"
    /\ UNCHANGED <<uploaded_file, emission_factor, reduction_percent,
                   city_stats, gu_stats, ym_stats, ym_plot, result, message>>

\* the three aggregations
Aggregate ==
    /\ pc = "aggregate"
    /\ city_stats' = aggregate_by_city(df)
    /\ gu_stats' = aggregate_by_gu(df)
    /\ ym_stats' = aggregate_by_year_month(df)
    /\ pc' = "tabs"
    /\ UNCHANGED <<uploaded_file, emission_factor, reduction_percent, loaded, df,
                   ym_plot, result, message>>

\* tabs 1-3: the tables are shown; the year-month chart gets its labels
Tabs ==
    /\ pc = "tabs"
    /\ ym_plot' = YmPlot(ym_stats)
    /\ pc' = "simulate"
    /\ UNCHANGED <<uploaded_file, emission_factor, reduction_percent, loaded, df,
                   city_stats, gu_stats, ym_stats, result, message>>

\* tab 4: result = simulate_reduction(df, reduction_percent / 100.0)
Simulate ==
    /\ pc = "simulate"
    /\ result' = simulate_reduction(df, RateOf(reduction_percent))
    /\ pc' = "rendered"
    /\ UNCHANGED <<uploaded_file, emission_factor, reduction_percent, loaded, df,
                   city_stats, gu_stats, ym_stats, ym_plot, message>>

Next ==
    \/ NoUpload
    \/ Upload
    \/ LoadOk
    \/ LoadFail
    \/ Empty
    \/ NonEmpty
    \/ Enrich
    \/ Aggregate
    \/ Tabs
    \/ Simulate

Spec == Init /\ [][Next]_vars

\* main runs to its end
FairSpec == Spec /\ WF_vars(Next)

\* ------------------------------------------------------------------------
\* Properties
\* ------------------------------------------------------------------------

\* main got past a successful load
AfterLoad == pc \in {"check", "empty", "enrich", "aggregate", "tabs", "simulate", "rendered"}

AfterEnrich == pc \in {"aggregate", "tabs", "simulate", "rendered"}

AfterAggregate == pc \in {"tabs", "simulate", "rendered"}

\* main got past the try block of the load
LoadDecided == pc \notin {"start", "waiting", "load"}

Outcomes == {"waiting", "error", "empty", "rendered"}

RowIdx(d) == 1..Len(d.rows)

\* sum of a column over the rows with index in I
RECURSIVE SumIdx(_, _, _)
SumIdx(rows, col, I) ==
    IF I = {} THEN 0
    ELSE LET i == CHOOSE x \in I : TRUE
         IN  rows[i][col].v + SumIdx(rows, col, I \ {i})

Total(d, col) == SumIdx(d.rows, col, RowIdx(d))

\* the uploaded table as read_csv delivers it
raw == uploaded_file.table

\* C1: the emission sums of the province table and of the municipality
\* table both add up to the emission total of the dataset, and the tonnage
\* sums both add up to the tonnage total.
C1_TotalsConserved ==
    AfterAggregate =>
        /\ Total(city_stats, "total_kgCO2e") = Total(gu_stats, "total_kgCO2e")
        /\ Total(gu_stats, "total_kgCO2e") = Total(df, "emission")
        /\ Total(city_stats, "total_tons") = Total(gu_stats, "total_tons")
        /\ Total(gu_stats, "total_tons") = Total(df, "tonnage")

\* a province with two municipalities and a non-zero emission total
C1_Witness ==
    /\ pc = "rendered"
    /\ Len(gu_stats.rows) > Len(city_stats.rows)
    /\ Total(df, "emission") > 0
    /\ Total(df, "emission") # Total(df, "tonnage")

\* out has exactly one row per key combination of d, carrying the sums of
\* tonnage and emission over the rows of d with that combination
AggregatesExactly(out, d, keys) ==
    /\ \A i \in RowIdx(d) :
          Cardinality({ j \in RowIdx(out) :
                          KeyOf(out.rows[j], keys) = KeyOf(d.rows[i], keys) }) = 1
    /\ \A j \in RowIdx(out) :
          LET I == { i \in RowIdx(d) : KeyOf(d.rows[i], keys) = KeyOf(out.rows[j], keys) }
          IN  /\ I # {}
              /\ out.rows[j]["total_tons"].v = SumIdx(d.rows, "tonnage", I)
              /\ out.rows[j]["total_kgCO2e"].v = SumIdx(d.rows, "emission", I)

\* C2: each of the three aggregation outputs has exactly one row per
\* distinct key combination of the dataset and no other row, with the sums
\* of tonnage and emission over exactly the rows of that combination.
C2_OneRowPerKey ==
    AfterAggregate =>
        /\ AggregatesExactly(city_stats, df, <<"province">>)
        /\ AggregatesExactly(gu_stats, df, <<"province", "municipality">>)
        /\ AggregatesExactly(ym_stats, df, <<"year", "month">>)

\* two rows of one province in two different months
C2_Witness ==
    /\ pc = "rendered"
    /\ Len(df.rows) = 2
    /\ Len(city_stats.rows) = 1
    /\ Len(ym_stats.rows) = 2

\* C3: the enriched dataset has the rows of the cleaned one in the same
\* order, each with emission = tonnage x factor (all zero for factor 0), and
\* the cleaned dataset handed in has not gained the emission column.
C3_EnrichFrame ==
    AfterEnrich =>
        /\ Len(df.rows) = Len(loaded.rows)
        /\ "emission" \notin loaded.cols
        /\ df.cols = loaded.cols \cup {"emission"}
        /\ \A i \in RowIdx(df) :
              /\ \A c \in loaded.cols : df.rows[i][c] = loaded.rows[i][c]
              /\ df.rows[i]["emission"].k = "num"
              /\ df.rows[i]["emission"].v * Scale = df.rows[i]["tonnage"].v * emission_factor
              /\ emission_factor = 0 => df.rows[i]["emission"].v = 0

\* two different rows enriched with a non-zero factor
C3_Witness ==
    /\ pc = "aggregate"
    /\ Len(df.rows) = 2
    /\ df.rows[1] # df.rows[2]
    /\ emission_factor # 0
    /\ df.rows[1]["emission"].v # 0

NothingComputed ==
    /\ loaded = EmptyFrame
    /\ df = EmptyFrame
    /\ city_stats = EmptyFrame
    /\ gu_stats = EmptyFrame
    /\ ym_stats = EmptyFrame
    /\ ym_plot = EmptyFrame
    /\ result = NoResult

\* C4: when a required column is absent from the uploaded table, the load
\* fails with the column error naming an absent column, no dataset is
\* returned and nothing is enriched, aggregated or simulated; when all five
\* are present there is no column error.
C4_SchemaError ==
    (LoadDecided /\ uploaded_file.enc \in Encodings) =>
        IF RequiredSet \subseteq raw.cols
        THEN message.exc # "ValueError"
        ELSE /\ pc = "error"
             /\ message.kind = "error"
             /\ message.exc = "ValueError"
             /\ message.arg \in RequiredSet \ raw.cols
             /\ NothingComputed

\* the tonnage column is absent and the error names it
C4_Witness ==
    /\ pc = "error"
    /\ message.exc = "ValueError"
    /\ message.arg = "tonnage"
    /\ raw.cols = RequiredSet \ {"tonnage"}

\* a raw cell that coerces to a number, and the number
Numeric(c) == c.k \in {"num", "inf"} \/ (c.k = "str" /\ c.s = "7")

NumValue(c) == IF c.k = "str" THEN 7 * Scale ELSE c.v

\* n is the float v cut to an integer
IsTrunc(n, v) ==
    IF v >= 0 THEN n * Scale <= v /\ v < (n + 1) * Scale
    ELSE n * Scale >= v /\ v > (n - 1) * Scale

\* the dataset returned by the load is the rows K of the uploaded table, in
\* their order, with year and month cut to integers
ReturnsRows(K) ==
    /\ loaded.cols = raw.cols
    /\ Len(loaded.rows) = Cardinality(K)
    /\ \A i \in K :
          LET n == Cardinality({ j \in K : j <= i })
          IN  /\ loaded.rows[n]["province"] = raw.rows[i]["province"]
              /\ loaded.rows[n]["municipality"] = raw.rows[i]["municipality"]
              /\ loaded.rows[n]["tonnage"] = Num(NumValue(raw.rows[i]["tonnage"]))
              /\ IsTrunc(loaded.rows[n]["year"].v, NumValue(raw.rows[i]["year"]))
              /\ IsTrunc(loaded.rows[n]["month"].v, NumValue(raw.rows[i]["month"]))

\* the rows whose year, month and tonnage coerce to numbers
NumericRows == { i \in RowIdx(raw) : \A c \in NumericCols : Numeric(raw.rows[i][c]) }

\* the rows with no required field missing and numeric year, month, tonnage
CompleteRows ==
    { i \in NumericRows : \A c \in RequiredSet : ~isna(raw.rows[i][c]) }

\* C5 as stated: the load returns exactly the rows whose year, month and
\* tonnage coerce to numbers.
C5_Original == pc = "check" => ReturnsRows(NumericRows)

\* C5 (amended): the load returns, in order, exactly the rows in which none
\* of the five required fields is missing and year, month and tonnage coerce
\* to numbers; when such a row has an infinite year or month the integer
\* cast fails and nothing is returned.
C5_RowsKept ==
    (LoadDecided /\ uploaded_file.enc \in Encodings /\ RequiredSet \subseteq raw.cols) =>
        IF \E i \in CompleteRows : \E c \in IntCols : raw.rows[i][c].k = "inf"
        THEN pc = "error" /\ message.exc = "IntCastingNaNError" /\ NothingComputed
        ELSE pc # "error" /\ ReturnsRows(CompleteRows)

\* one of two rows has a non-numeric month and only the other is returned
C5_Witness ==
    /\ pc = "check"
    /\ Len(raw.rows) = 2
    /\ Len(loaded.rows) = 1
    /\ \E i \in RowIdx(raw) : raw.rows[i]["month"] = Str("abc")

\* the result of the simulation for the dataset and the percent entered
C6_Result ==
    pc = "rendered" =>
        LET percent == reduction_percent \div Scale
        IN  /\ result.original_total = Total(df, "emission")
            /\ result.reduced_total * 100 = result.original_total * (100 - percent)
            /\ result.diff = result.original_total - result.reduced_total
            /\ result.reduced_total + result.diff = result.original_total
            /\ percent = 0 => (result.reduced_total = result.original_total /\ result.diff = 0)
            /\ percent = 100 => result.reduced_total = 0
            /\ (percent = 10 /\ result.original_total = 1000 * Scale) =>
                   (result.reduced_total = 900 * Scale /\ result.diff = 100 * Scale)

\* C6: reduced_total = original_total x (1 - rate) and delta =
\* original_total - reduced_total, with original_total the emission total of
\* the dataset (rate 0: nothing reduced; rate 1: reduced to 0; rate 0.1 of
\* 1000: 900 and 100), and the simulation leaves the dataset as it was.
C6_Reduction ==
    /\ []C6_Result
    /\ [][pc = "simulate" => (df' = df /\ loaded' = loaded)]_vars

\* 1000 kg reduced by 10 percent
C6_Witness ==
    /\ pc = "rendered"
    /\ reduction_percent = 10 * Scale
    /\ result.original_total = 1000 * Scale
    /\ result.diff = 100 * Scale

Labels(d) == { d.rows[i]["label"].s : i \in RowIdx(d) }

Years == { df.rows[i]["year"].v : i \in RowIdx(df) }

IsMinYear(y) == \A z \in Years : y <= z

IsMaxYear(y) == \A z \in Years : y >= z

HalfOf(m) == IF m <= 6 THEN 1 ELSE 2

\* the rows outside the first half of the earliest year and the second
\* half of the latest year
InnerRows ==
    { i \in RowIdx(df) :
        /\ ~(IsMinYear(df.rows[i]["year"].v) /\ HalfOf(df.rows[i]["month"].v) = 1)
        /\ ~(IsMaxYear(df.rows[i]["year"].v) /\ HalfOf(df.rows[i]["month"].v) = 2) }

RowSet(d) == { d.rows[i] : i \in RowIdx(d) }

\* the datasets with the rows of d in any order
Reordered(d) ==
    { DataFrame(d.cols, [i \in RowIdx(d) |-> d.rows[p[i]]]) :
        p \in Permutations(RowIdx(d)) }

\* C8: each aggregation gives the same set of (key, tonnage sum, emission
\* sum) rows for every order of the dataset's rows.
C8_OrderIndependent ==
    AfterAggregate =>
        \A q \in Reordered(df) :
            /\ RowSet(aggregate_by_city(q)) = RowSet(city_stats)
            /\ RowSet(aggregate_by_gu(q)) = RowSet(gu_stats)
            /\ RowSet(aggregate_by_year_month(q)) = RowSet(ym_stats)

\* two rows of one province with different tonnage
C8_Witness ==
    /\ pc = "rendered"
    /\ Len(df.rows) = 2
    /\ df.rows[1]["province"] = df.rows[2]["province"]
    /\ df.rows[1]["tonnage"] # df.rows[2]["tonnage"]

\* C9 as stated: every returned record has integer year and month, a month
\* in 1..12 and a non-negative tonnage.
C9_Original ==
    AfterLoad =>
        \A i \in RowIdx(loaded) :
            /\ loaded.rows[i]["year"].k = "int"
            /\ loaded.rows[i]["month"].k = "int"
            /\ loaded.rows[i]["month"].v \in 1..12
            /\ loaded.rows[i]["tonnage"].v >= 0

\* C9 (amended): every returned record has integer year and month and a
\* numeric, non-missing tonnage; the month's range and the tonnage's sign
\* are as uploaded.
C9_RecordTypes ==
    AfterLoad =>
        \A i \in RowIdx(loaded) :
            /\ loaded.rows[i]["year"].k = "int"
            /\ loaded.rows[i]["month"].k = "int"
            /\ loaded.rows[i]["tonnage"].k = "num"
            /\ loaded.rows[i]["province"].k = "str"
            /\ loaded.rows[i]["municipality"].k = "str"

\* a returned record with month 13 and a negative tonnage
C9_Witness ==
    /\ pc = "check"
    /\ \E i \in RowIdx(loaded) :
          /\ loaded.rows[i]["month"] = Int64(13)
          /\ loaded.rows[i]["tonnage"].v < 0

\* where a run of main stands, and what it has done
C10_Outcome ==
    /\ pc # "fault"
    /\ pc = "waiting" => (message.kind = "info" /\ NothingComputed)
    /\ pc = "error" => (message.kind = "error" /\ NothingComputed)
    /\ pc = "empty" => (message.kind = "empty" /\ loaded.rows = <<>>)
    /\ pc = "rendered" => message.kind = "success"
    /\ LoadDecided =>
          /\ uploaded_file.enc \notin Encodings =>
                (pc = "error" /\ message.exc = "UnicodeDecodeError")
          /\ (uploaded_file.enc \in Encodings /\ ~(RequiredSet \subseteq raw.cols)) =>
                (pc = "error" /\ message.exc = "ValueError")
          /\ load_and_preprocess(uploaded_file).raised # "" => pc = "error"
          /\ (pc # "error" /\ loaded.rows = <<>>) => pc \in {"check", "empty"}
    /\ (AfterEnrich \/ "emission" \in df.cols \/ city_stats # EmptyFrame
            \/ gu_stats # EmptyFrame \/ ym_stats # EmptyFrame \/ result # NoResult) =>
          /\ load_and_preprocess(uploaded_file).raised = ""
          /\ Len(loaded.rows) >= 1

\* C10: every run of main ends in exactly one of waiting, error, empty and
\* rendered and never in an unhandled fault; a failed load ends in the error
\* message, an empty cleaned dataset in the empty-state message, and the
\* enrichment, aggregation and simulation run only after a load that
\* returned at least one row.
C10_HandledOutcomes ==
    /\ []C10_Outcome
    /\ [][pc \notin Outcomes]_vars
    /\ <>(pc \in Outcomes)

\* an undecodable file ended in the error message
C10_Witness ==
    /\ pc = "error"
    /\ message.exc = "UnicodeDecodeError"
    /\ uploaded_file.enc = "binary"

=============================================================================
